---- MODULE Spec2Model ----
(***************************************************************************)
(* Subscription lifecycle engine of lumen_quest_backend.                   *)
(*                                                                         *)
(* The state is the content of the hosted store as the data-access layer   *)
(* sees it: the subscriptions table, the append-only subscription_logs     *)
(* table and the billing_information table, next to the plan catalog.      *)
(* Writes to the subscriptions table pass through the BEFORE INSERT/UPDATE *)
(* triggers of migration 20250913000003.                                   *)
(*                                                                         *)
(* Every service operation is a chain of awaited store calls.  Each call   *)
(* is one Step of a request record (its pc names the next call).  Under    *)
(* Spec a request runs to completion in one action (requests in sequence); *)
(* under SpecConc the steps of two requests interleave at the awaits.      *)
(***************************************************************************)
EXTENDS Integers, Sequences, FiniteSets, TLC

\* ---------------------------------------------------------------- bounds
MaxSubs == 2
MaxOps == 2
MaxUsage == 2

\* ------------------------------------------------------------- constants
Null == 0

SubIds == 1..MaxSubs
PlanIds == 1..5
Callers == {[userId |-> "u1", role |-> "user"],
            [userId |-> "u2", role |-> "user"],
            [userId |-> "root", role |-> "admin"]}

UsageOutcomes == {"row", "query_error", "throws"}
UsageAmounts == {0, MaxUsage}

BillingCycles == {"weekly", "monthly", "quarterly", "yearly"}

VARIABLES plans, subs, logs, bills, now, last, opCount, reqs, calc, priceInForce

vars == <<plans, subs, logs, bills, now, last, opCount, reqs, calc, priceInForce>>

\* ---------------------------------------------------------------- calendar
\* Timestamps are whole days; a day is counted from 2023-01-01 (day 1) and a
\* calendar date is a record [y, m, d].  Times of day and time zones are left
\* out: every date is taken at the same hour in the server's zone.
Years == 2023..2027

IsLeap(y) == (y % 4 = 0 /\ y % 100 # 0) \/ y % 400 = 0

DaysInMonth(y, m) ==
  IF m = 2 THEN (IF IsLeap(y) THEN 29 ELSE 28)
  ELSE IF m \in {4, 6, 9, 11} THEN 30 ELSE 31

DaysBeforeYear(y) ==
  365 * (y - 2023) + Cardinality({k \in 2023..(y - 1) : IsLeap(k)})

DaysBeforeMonth(y, m) ==
  <<0, 31, 59, 90, 120, 151, 181, 212, 243, 273, 304, 334>>[m]
  + (IF IsLeap(y) /\ m > 2 THEN 1 ELSE 0)

\* The day number of a date whose d may run past the end of its month (the
\* Date constructor carries the excess into the following months)
ToDays(dt) == DaysBeforeYear(dt.y) + DaysBeforeMonth(dt.y, dt.m) + dt.d

\* The date of the r-th day of year y
DateInYear(y, r) ==
  LET m == CHOOSE k \in 1..12 :
             DaysBeforeMonth(y, k) < r /\ r <= DaysBeforeMonth(y, k) + DaysInMonth(y, k)
  IN [y |-> y, m |-> m, d |-> r - DaysBeforeMonth(y, m)]

YearOf(n) ==
  CHOOSE k \in Years : DaysBeforeYear(k) < n /\ n <= DaysBeforeYear(k + 1)

YearAndDay(y, n) == DateInYear(y, n - DaysBeforeYear(y))

FromDays(n) == YearAndDay(YearOf(n), n)

\* year and month reached `months` months after those of dt
MonthAfter(dt, months) ==
  [y |-> dt.y + ((dt.m - 1 + months) \div 12),
   m |-> ((dt.m - 1 + months) % 12) + 1]

\* Day d of the month t, carried over when the month is shorter
Overflowing(t, d) == ToDays([y |-> t.y, m |-> t.m, d |-> d])

\* Day d of the month t, or the last day of t when the month is shorter
Clamping(t, d) ==
  ToDays([y |-> t.y, m |-> t.m,
          d |-> IF d < DaysInMonth(t.y, t.m) THEN d ELSE DaysInMonth(t.y, t.m)])

SetMonth(dt, months) == Overflowing(MonthAfter(dt, months), dt.d)

PlusMonths(dt, months) == Clamping(MonthAfter(dt, months), dt.d)

\* dateHelpers.addMonths: setMonth(getMonth() + months) keeps the day of the
\* month, so a day the target month lacks runs over into the month after
addMonths(day, months) == SetMonth(FromDays(day), months)

\* timestamptz + INTERVAL 'n months': the day of the month is clamped to the
\* last day of the target month
AddInterval(day, months) == PlusMonths(FromDays(day), months)

\* The months in the interval of a cycle that is counted in months
IntervalMonths(cycle) ==
  CASE cycle = "monthly" -> 1
    [] cycle = "yearly" -> 12
    [] cycle = "quarterly" -> 3

\* calculate_subscription_period_end with the interval subtracted
calculate_subscription_period_end_Back(start, cycle) ==
  IF cycle = "weekly" THEN start - 7
  ELSE 2 * start - AddInterval(start, IntervalMonths(cycle))

\* calculate_subscription_period_end (the ELSE branch raises: no cycle the
\* CHECK constraint admits reaches it)
calculate_subscription_period_end(start, cycle) ==
  IF cycle = "weekly" THEN start + 7
  ELSE AddInterval(start, IntervalMonths(cycle))

\* SubscriptionService.calculateNextBillingDate: counted from today, not
\* from the subscription's period; a cycle without a case of its own takes
\* the monthly default
calculateNextBillingDate(cycle, today) ==
  IF cycle = "weekly" THEN today + 7
  ELSE addMonths(today, IF cycle = "yearly" THEN 12 ELSE 1)

Max(a, b) == IF a > b THEN a ELSE b

\* SubscriptionService.calculateRemainingDays
calculateRemainingDays(cycle, today) ==
  Max(0, calculateNextBillingDate(cycle, today) - today)

\* The next billing date BillingModel.generateForSubscription computes
nextBillingDate(cycle, billingDate) ==
  IF cycle = "weekly" THEN billingDate + 7
  ELSE addMonths(billingDate, IF cycle = "yearly" THEN 12 ELSE 1)

\* ------------------------------------------------------------ plan catalog
Plan(price, quota, active, trial, cycle) ==
  [exists |-> TRUE, price |-> price, quota |-> quota,
   is_active |-> active, trial_days |-> trial, billing_cycle |-> cycle]

\* Prices and quotas cover every sign combination of (price, quota) between
\* two plans and the plans cover the four billing cycles; plan 2 has a trial
\* period, plan 5 is deactivated.
Catalog ==
  (1 :> Plan(1, 1, TRUE, 0, "monthly")) @@ (2 :> Plan(1, 2, TRUE, 14, "yearly")) @@
  (3 :> Plan(2, 1, TRUE, 0, "quarterly")) @@ (4 :> Plan(2, 2, TRUE, 0, "weekly")) @@
  (5 :> Plan(3, 3, FALSE, 0, "monthly"))

\* ------------------------------------------------------- subscription rows
NoRow ==
  [exists |-> FALSE, user_id |-> "u1", plan_id |-> 1, status |-> "active",
   cancelled_at |-> Null, paused_at |-> Null, pause_duration_days |-> Null,
   auto_renewal |-> TRUE, trial_start |-> Null, trial_end |-> Null,
   cancel_date |-> Null, quota_snapshot |-> 0, previous_plan_id |-> 0,
   upgrade_date |-> Null, downgrade_date |-> Null, immediate |-> FALSE,
   effective_date |-> Null,
   billing_cycle |-> "monthly", current_period_start |-> Null,
   current_period_end |-> Null, next_billing_date |-> Null]

\* A stored row in a given status, with the timestamp columns the schema
\* pairs with that status.
StoredRow(user, plan, status, t) ==
  [NoRow EXCEPT !.exists = TRUE, !.user_id = user, !.plan_id = plan,
     !.status = status,
     !.cancelled_at = IF status = "cancelled" THEN t ELSE Null,
     !.cancel_date = IF status = "cancelled" THEN t ELSE Null,
     !.auto_renewal = (status # "cancelled"),
     !.paused_at = IF status = "paused" THEN t ELSE Null,
     !.pause_duration_days = IF status = "paused" THEN 10 ELSE Null,
     !.trial_start = IF status = "trial" THEN t ELSE Null,
     !.trial_end = IF status = "trial" THEN t + Catalog[plan].trial_days ELSE Null,
     !.quota_snapshot = Catalog[plan].quota,
     !.billing_cycle = Catalog[plan].billing_cycle,
     !.current_period_start = t,
     !.current_period_end =
        calculate_subscription_period_end(t, Catalog[plan].billing_cycle),
     !.next_billing_date =
        IF status = "active"
        THEN calculate_subscription_period_end(t, Catalog[plan].billing_cycle)
        ELSE Null]

\* ---------------------------------------------------------------- triggers
\* set_subscription_period_dates, first block: the period end when the
\* write gives none
PeriodEndOrDefault(new) ==
  IF new.current_period_end = Null
  THEN calculate_subscription_period_end(new.current_period_start, new.billing_cycle)
  ELSE new.current_period_end

\* set_subscription_period_dates, third block: a trial starts when
\* trial_start is given without trial_end and the plan has trial days
TrialStarts(new) ==
  new.trial_start # Null /\ new.trial_end = Null /\ plans[new.plan_id].trial_days > 0

\* set_subscription_period_dates (BEFORE INSERT OR UPDATE)
set_subscription_period_dates(new) ==
  [new EXCEPT
     !.current_period_end = PeriodEndOrDefault(new),
     !.next_billing_date =
        IF new.status = "active" /\ new.next_billing_date = Null
        THEN PeriodEndOrDefault(new) ELSE @,
     !.trial_end =
        IF TrialStarts(new)
        THEN new.trial_start + plans[new.plan_id].trial_days ELSE @,
     !.status = IF TrialStarts(new) THEN "trial" ELSE @]

\* handle_subscription_status_change, last block: the next billing date of
\* a row that becomes active
NextBillingOnActivation(new) ==
  IF new.billing_cycle = "weekly" THEN new.current_period_end + 7
  ELSE AddInterval(new.current_period_end, IntervalMonths(new.billing_cycle))

\* handle_subscription_status_change (BEFORE UPDATE)
handle_subscription_status_change(old, new) ==
  [new EXCEPT
     !.cancelled_at =
        IF new.status = "cancelled" /\ old.status # "cancelled" THEN now
        ELSE IF new.status = "active" /\ old.status \in {"cancelled", "paused"}
             THEN Null ELSE @,
     !.auto_renewal =
        IF new.status = "cancelled" /\ old.status # "cancelled" THEN FALSE ELSE @,
     !.paused_at =
        IF new.status = "paused" /\ old.status # "paused" THEN now
        ELSE IF new.status = "active" /\ old.status \in {"cancelled", "paused"}
             THEN Null ELSE @,
     !.pause_duration_days =
        IF new.status = "active" /\ old.status \in {"cancelled", "paused"}
        THEN Null ELSE @,
     !.next_billing_date =
        IF new.status = "active" /\ old.status # "active"
        THEN NextBillingOnActivation(new) ELSE @]

\* The row an UPDATE stores: triggers fire in name order
\* (trigger_subscription_period_dates, trigger_subscription_status_change).
UpdateRow(old, new) ==
  handle_subscription_status_change(old, set_subscription_period_dates(new))

\* The row an INSERT stores.  current_period_start takes its column default
\* NOW().  billing_cycle is NOT NULL without a default and the data layer
\* never writes it: the row is taken to carry the cycle of its plan, the one
\* value under which the store accepts the insert at all.
InsertRow(new) ==
  set_subscription_period_dates(
    [new EXCEPT !.current_period_start = now,
                !.billing_cycle = plans[new.plan_id].billing_cycle])

\* ------------------------------------------------------------ request records
\* A request before its first store call.  sub is the :id of the request
\* (Create has none), target the plan id, caller the user context; force and
\* immediate are the option flags; usageOutcome/usageAmount is what the usage
\* query answers when the request reaches it; price is the new price of a
\* plan update; user is the authenticated user when the request came through
\* a route of the user router.  overlapped records that another
\* request was in flight during this one.  logFails/billFails say whether the
\* insert into subscription_logs / billing_information answers an error when
\* the request reaches it.
NewReq(op, sub, target, caller, force, immediate, uo, ua) ==
  [op |-> op, sub |-> sub, target |-> target, caller |-> caller,
   force |-> force, immediate |-> immediate,
   usageOutcome |-> uo, usageAmount |-> ua, price |-> 0, user |-> "",
   logFails |-> FALSE, billFails |-> FALSE,
   pc |-> "start", result |-> "pending",
   seenPlan |-> 0, existingPlan |-> 0, newId |-> 0, overlapped |-> FALSE,
   effective_date |-> Null,
   refund |-> [num |-> 0, den |-> 1]]

\* The request with the outcomes of its two side-effect inserts chosen
WithFaults(r, lf, bf) == [r EXCEPT !.logFails = lf, !.billFails = bf]

Idle ==
  [NewReq("none", 0, 0, [userId |-> "u1", role |-> "user"], FALSE, FALSE, "row", 0)
     EXCEPT !.pc = "done", !.result = "none"]

DB == [subs |-> subs, logs |-> logs, bills |-> bills]

Out(r, db) == [r |-> r, db |-> db]
Goto(r, db, pc) == Out([r EXCEPT !.pc = pc], db)
Finish(r, db, res) == Out([r EXCEPT !.pc = "done", !.result = res], db)

\* the insert of logAction left out
logAction_Dropped(db, id, action, from, to) == db

\* SubscriptionModel.logAction: one row appended to subscription_logs
logAction(db, id, action, from, to) ==
  [db EXCEPT !.logs = Append(@, [sub |-> id, action |-> action,
                                 from |-> from, to |-> to])]

\* SubscriptionModel.logAction when the insert may answer an error: the
\* error is logged and null returned, nothing is thrown
tryLogAction(r, db, id, action, from, to) ==
  IF r.logFails THEN db ELSE logAction(db, id, action, from, to)

\* BillingModel.generateForSubscription: reads the subscription joined with
\* its plan and inserts one billing_information row for plan.price
generateForSubscription(db, id, notes) ==
  LET plan == plans[db.subs[id].plan_id] IN
  [db EXCEPT !.bills = Append(@, [sub |-> id,
                                  amount |-> plan.price,
                                  billing_date |-> now,
                                  next_billing_date |->
                                    nextBillingDate(plan.billing_cycle, now),
                                  notes |-> notes,
                                  status |-> "pending"])]

\* The try/catch round generateForSubscription in createSubscription and
\* upgradeSubscription: a billing error is logged as a warning and dropped
generateOrWarn(r, db, id, notes) ==
  IF r.billFails THEN db ELSE generateForSubscription(db, id, notes)

\* What JavaScript answers for a property or an argument that is not there
Undefined == "undefined"

\* getSubscriptionById telling a foreign subscription from a missing one
getSubscriptionById_Forbidden(db, id, caller) ==
  IF ~db.subs[id].exists THEN "NotFound"
  ELSE IF caller.role # "admin" /\ caller.userId # db.subs[id].user_id
       THEN "Forbidden"
       ELSE "ok"

\* SubscriptionService.getSubscriptionById: the row must exist and, for a
\* non-admin caller, belong to the caller
getSubscriptionById(db, id, caller) ==
  IF ~db.subs[id].exists THEN "NotFound"
  ELSE IF caller.role # "admin" /\ caller.userId # db.subs[id].user_id
       THEN "NotFound"
       ELSE "ok"

\* ------------------------------------------------------------------ Cancel
\* the neighbouring member of SUBSCRIPTION_STATUS taken by mistake
CANCELLED_Suspended == "suspended"

\* SUBSCRIPTION_STATUS.CANCELLED
CANCELLED == "cancelled"

\* cancelSubscription line 327 with the comparison turned round
AlreadyCancelled_Inverted(row) == row.status # CANCELLED

\* cancelSubscription line 327: the service refuses a cancelled subscription
AlreadyCancelled(row) == row.status = CANCELLED

\* cancelSubscription lines 338-344: the refund as the fraction num / den,
\* worked out from the subscription and plan read before the cancellation
refundAmount(r) ==
  IF r.immediate /\ plans[r.seenPlan].exists
  THEN LET plan == plans[r.seenPlan]
           daysRemaining == calculateRemainingDays(plan.billing_cycle, now)
           totalDays == IF plan.billing_cycle = "monthly" THEN 30 ELSE 365
       IN [num |-> daysRemaining * plan.price, den |-> totalDays]
  ELSE [num |-> 0, den |-> 1]

\* SubscriptionService.cancelSubscription -> SubscriptionModel.cancel
CancelStep(r, db) ==
  LET id == r.sub
      row == db.subs[id]
  IN
  CASE r.pc = "start" ->
         IF getSubscriptionById(db, id, r.caller) # "ok"
         THEN Finish(r, db, "NotFound")
         ELSE IF AlreadyCancelled(row)
              THEN Finish(r, db, "AlreadyCancelled")
              ELSE Goto([r EXCEPT !.seenPlan = row.plan_id], db, "model_get")
    [] r.pc = "model_get" ->
         IF ~row.exists THEN Finish(r, db, "NotFound")
         ELSE IF row.status = CANCELLED
              THEN Finish(r, db, "AlreadyCancelled")
              ELSE Goto(r, db, "model_update")
    [] r.pc = "model_update" ->
         Goto(r,
              [db EXCEPT !.subs[id] =
                 UpdateRow(row, [row EXCEPT !.status = CANCELLED,
                                            !.cancel_date = now])],
              "model_log")
    [] r.pc = "model_log" ->
         Finish([r EXCEPT !.refund = refundAmount(r)],
                tryLogAction(r, db, id, "cancel", 0, 0), "ok")

\* ----------------------------------------------------------------- Upgrade
\* the status test letting a paused subscription through
NotActive_PausedPasses(row) == row.status \notin {"active", "paused"}

\* upgradeSubscription line 169 and downgradeSubscription line 246: only an
\* active subscription may change its plan
NotActive(row) == row.status # "active"

\* line 184 with || in place of &&
NotAnUpgrade_Either(cur, tgt) == tgt.price <= cur.price \/ tgt.quota <= cur.quota

\* line 184 with < in place of <=
NotAnUpgrade_Strict(cur, tgt) == tgt.price < cur.price /\ tgt.quota < cur.quota

\* upgradeSubscription line 184: the target is refused when it is neither
\* dearer nor larger
NotAnUpgrade(cur, tgt) == tgt.price <= cur.price /\ tgt.quota <= cur.quota

\* downgradeSubscription line 261: the target is refused when it is neither
\* cheaper nor smaller
NotADowngrade(cur, tgt) == tgt.price >= cur.price /\ tgt.quota >= cur.quota

\* The two PlanModel.getById calls of Upgrade/Downgrade and the checks on
\* their answers; refuse is the ordering check of the operation.
PlanChecks(r, refused, err) ==
  IF ~plans[r.seenPlan].exists \/ ~plans[r.target].exists THEN "NotFound"
  ELSE IF ~plans[r.target].is_active THEN "PlanUnavailable"
  ELSE IF refused THEN err
  ELSE "ok"

\* SubscriptionService.upgradeSubscription -> SubscriptionModel.upgrade
UpgradeStep(r, db) ==
  LET id == r.sub
      row == db.subs[id]
  IN
  CASE r.pc = "start" ->
         IF getSubscriptionById(db, id, r.caller) # "ok"
         THEN Finish(r, db, "NotFound")
         ELSE IF NotActive(row)
              THEN Finish(r, db, "InvalidTransition")
              ELSE Goto([r EXCEPT !.seenPlan = row.plan_id], db, "plans")
    [] r.pc = "plans" ->
         LET c == PlanChecks(r, NotAnUpgrade(plans[r.seenPlan], plans[r.target]), "NotAnUpgrade") IN
         IF c # "ok" THEN Finish(r, db, c)
         ELSE Goto([r EXCEPT !.effective_date = now], db, "model_get")
    [] r.pc = "model_get" ->
         IF ~row.exists THEN Finish(r, db, "NotFound")
         ELSE IF row.status # "active"
              THEN Finish(r, db, "ConflictError")
              ELSE Goto([r EXCEPT !.existingPlan = row.plan_id], db, "model_update")
    [] r.pc = "model_update" ->
         IF ~plans[r.target].exists THEN Finish(r, db, "ForeignKeyViolation") ELSE
         Goto(r,
              [db EXCEPT !.subs[id] =
                 UpdateRow(row, [row EXCEPT !.plan_id = r.target,
                                            !.upgrade_date = now,
                                            !.effective_date = r.effective_date,
                                            !.previous_plan_id = r.seenPlan])],
              "model_log")
    [] r.pc = "model_log" ->
         Goto(r, tryLogAction(r, db, id, "upgrade", r.existingPlan, r.target), "bill")
    [] r.pc = "bill" ->
         Finish(r, generateOrWarn(r, db, id, "upgrade"), "ok")

\* --------------------------------------------------------------- Downgrade
\* SubscriptionModel.getUsage as the downgrade reads it: the newest
\* usage_metrics row, or 0 when the query answers an error or no row
current_usage(r) == IF r.usageOutcome = "row" THEN r.usageAmount ELSE 0

\* What the try block of lines 266-274 throws
UsageCheckThrows(r, db) ==
  IF r.usageOutcome = "throws" \/ ~db.subs[r.sub].exists THEN "Unavailable"
  ELSE IF current_usage(r) > plans[r.target].quota /\ ~r.force
       THEN "UsageExceedsTarget"
       ELSE "none"

\* The catch block of lines 275-278 logs a warning and lets the downgrade
\* continue, whatever was thrown
UsageErrorPropagates(thrown) == FALSE

\* downgradeSubscription lines 280-283: the effective date of the downgrade
\* (no request of the model gives one of its own); the deferred date is
\* worked out from the plan the subscription was read with
effectiveDate(r) ==
  IF r.immediate THEN now
  ELSE calculateNextBillingDate(plans[r.seenPlan].billing_cycle, now)

\* SubscriptionService.downgradeSubscription -> SubscriptionModel.downgrade
DowngradeStep(r, db) ==
  LET id == r.sub
      row == db.subs[id]
  IN
  CASE r.pc = "start" ->
         IF getSubscriptionById(db, id, r.caller) # "ok"
         THEN Finish(r, db, "NotFound")
         ELSE IF NotActive(row)
              THEN Finish(r, db, "InvalidTransition")
              ELSE Goto([r EXCEPT !.seenPlan = row.plan_id], db, "plans")
    [] r.pc = "plans" ->
         LET c == PlanChecks(r, NotADowngrade(plans[r.seenPlan], plans[r.target]), "NotADowngrade") IN
         IF c # "ok" THEN Finish(r, db, c) ELSE Goto(r, db, "usage")
    [] r.pc = "usage" ->
         LET thrown == UsageCheckThrows(r, db) IN
         IF thrown # "none" /\ UsageErrorPropagates(thrown)
         THEN Finish(r, db, thrown)
         ELSE Goto([r EXCEPT !.effective_date = effectiveDate(r)], db, "model_get")
    [] r.pc = "model_get" ->
         IF ~row.exists THEN Finish(r, db, "NotFound")
         ELSE IF row.status # "active"
              THEN Finish(r, db, "ConflictError")
              ELSE Goto([r EXCEPT !.existingPlan = row.plan_id], db, "model_update")
    [] r.pc = "model_update" ->
         IF ~plans[r.target].exists THEN Finish(r, db, "ForeignKeyViolation") ELSE
         Goto(r,
              [db EXCEPT !.subs[id] =
                 UpdateRow(row, [row EXCEPT !.plan_id = r.target,
                                            !.downgrade_date = now,
                                            !.effective_date = r.effective_date,
                                            !.previous_plan_id = r.seenPlan,
                                            !.immediate = r.immediate])],
              "model_log")
    [] r.pc = "model_log" ->
         Finish(r, tryLogAction(r, db, id, "downgrade", r.existingPlan, r.target), "ok")

\* ------------------------------------------------------------------ Create
FreeIds(db) == {i \in SubIds : ~db.subs[i].exists}
NextId(db) == CHOOSE i \in FreeIds(db) : \A j \in FreeIds(db) : i <= j

\* rows of the user in status active (getByUserId with the status filter)
ActiveRowsOf(db, user) ==
  {i \in SubIds : db.subs[i].exists /\ db.subs[i].user_id = user
                  /\ db.subs[i].status = "active"}

\* SubscriptionModel.create's own check: .single() answers a row only when
\* exactly one row matches
SingleActive(db, user, plan) ==
  Cardinality({i \in ActiveRowsOf(db, user) : db.subs[i].plan_id = plan}) = 1

\* The status the service asks for (line 127) and the model forces (line 179)
CreateStatus(plan) == "active"

\* SubscriptionService.createSubscription -> SubscriptionModel.create
CreateStep(r, db) ==
  LET user == r.caller.userId
      plan == r.target
  IN
  CASE r.pc = "start" ->
         IF user = Undefined THEN Finish(r, db, "ValidationError")
         ELSE IF ~plans[plan].exists THEN Finish(r, db, "NotFound")
         ELSE IF ~plans[plan].is_active THEN Finish(r, db, "PlanUnavailable")
         ELSE Goto(r, db, "service_list")
    [] r.pc = "service_list" ->
         IF \E i \in ActiveRowsOf(db, user) : db.subs[i].plan_id = plan
         THEN Finish(r, db, "DuplicateSubscription")
         ELSE Goto(r, db, "model_check")
    [] r.pc = "model_check" ->
         IF SingleActive(db, user, plan)
         THEN Finish(r, db, "DuplicateSubscription")
         ELSE Goto(r, db, "model_insert")
    [] r.pc = "model_insert" ->
         LET id == NextId(db) IN
         IF ~plans[plan].exists THEN Finish(r, db, "ForeignKeyViolation") ELSE
         Goto([r EXCEPT !.newId = id],
              [db EXCEPT !.subs[id] =
                 InsertRow([NoRow EXCEPT !.exists = TRUE, !.user_id = user,
                                         !.plan_id = plan,
                                         !.quota_snapshot = plans[plan].quota,
                                         !.status = CreateStatus(plans[plan])])],
              "model_log")
    [] r.pc = "model_log" ->
         Goto(r, tryLogAction(r, db, r.newId, "subscribe", 0, plan), "bill")
    [] r.pc = "bill" ->
         Finish(r, generateOrWarn(r, db, r.newId, "initial"), "ok")

\* ------------------------------------------------------------------- Renew
\* a renewal that also moves the subscription on to its next period
RenewStep_Extending(r, db) ==
  LET id == r.sub
      row == db.subs[id]
  IN
  CASE r.pc = "start" ->
         IF ~row.exists THEN Finish(r, db, "NotFound")
         ELSE IF row.status # "active"
              THEN Finish(r, db, "InvalidTransition")
              ELSE Goto(r, db, "bill")
    [] r.pc = "bill" ->
         IF ~row.exists THEN Finish(r, db, "NotFound")
         ELSE IF r.billFails THEN Finish(r, db, "BillingError")
         ELSE Goto(r, generateForSubscription(db, id, "renewal"), "log")
    [] r.pc = "log" ->
         Finish(r,
                tryLogAction(r, [db EXCEPT !.subs[id].current_period_start =
                                             row.current_period_end],
                             id, "renew", 0, 0),
                "ok")

\* SubscriptionService.renewSubscription
RenewStep(r, db) ==
  LET id == r.sub
      row == db.subs[id]
  IN
  CASE r.pc = "start" ->
         IF ~row.exists THEN Finish(r, db, "NotFound")
         ELSE IF row.status # "active"
              THEN Finish(r, db, "InvalidTransition")
              ELSE Goto(r, db, "bill")
    [] r.pc = "bill" ->
         IF ~row.exists THEN Finish(r, db, "NotFound")
         ELSE IF r.billFails THEN Finish(r, db, "BillingError")
         ELSE Goto(r, generateForSubscription(db, id, "renewal"), "log")
    [] r.pc = "log" ->
         Finish(r, tryLogAction(r, db, id, "renew", 0, 0), "ok")

\* -------------------------------------------------------------------- Read
\* SubscriptionService.getSubscriptionById called for itself
ReadStep(r, db) == Finish(r, db, getSubscriptionById(db, r.sub, r.caller))

\* -------------------------------------------- Pause / Resume / Reactivate
\* The routes call subscriptionService.pauseSubscription, resumeSubscription
\* and reactivateSubscription; the service class defines none of them, so the
\* call throws before any store call.
UndefinedMethodStep(r, db) == Finish(r, db, "TypeError")

\* ------------------------------------------------------------ step and run
Step(r, db) ==
  CASE r.op = "Cancel" -> CancelStep(r, db)
    [] r.op = "Upgrade" -> UpgradeStep(r, db)
    [] r.op = "Downgrade" -> DowngradeStep(r, db)
    [] r.op = "Create" -> CreateStep(r, db)
    [] r.op = "Renew" -> RenewStep(r, db)
    [] r.op = "Read" -> ReadStep(r, db)
    [] OTHER -> UndefinedMethodStep(r, db)

\* The handler runs on from the outcome o of a store call to its answer
RECURSIVE RunOn(_)
RunOn(o) == IF o.r.pc = "done" THEN o ELSE RunOn(Step(o.r, o.db))

Run(r, db) == RunOn(Out(r, db))

\* ------------------------------------------------------------ initial state
\* A date computation: the day it starts from, the billing cycle, and the
\* answers of the three places that compute a date from a cycle (Null until
\* the place has been asked)
NoCalc ==
  [start |-> Null, cycle |-> "monthly", service |-> Null, billing |-> Null,
   trigger |-> Null]

ReqIds == {1, 2}
UserCallers == {c \in Callers : c.role = "user"}
Admin == CHOOSE c \in Callers : c.role = "admin"

\* The first request arrives on 2024-01-30; a row already in the store began
\* its period three days before, so that the requests fall inside the period
\* of every billing cycle.
Today == ToDays([y |-> 2024, m |-> 1, d |-> 30])
PeriodStart == Today - 3

\* The store holds no subscription, or one row of user u1 in any status the
\* schema admits.
InitRows ==
  {StoredRow("u1", p, "active", PeriodStart) : p \in {q \in PlanIds : Catalog[q].is_active}}
  \cup {StoredRow("u1", 1, st, PeriodStart) : st \in {"cancelled", "paused", "expired"}}
  \cup {StoredRow("u1", 2, "trial", PeriodStart)}

InitSubs ==
  {[i \in SubIds |-> NoRow]} \cup
  {[i \in SubIds |-> IF i = 1 THEN row ELSE NoRow] : row \in InitRows}

Init ==
  /\ plans = Catalog
  /\ subs \in InitSubs
  /\ logs = << >>
  /\ bills = << >>
  /\ now = Today
  /\ last = Idle
  /\ opCount = 0
  /\ reqs = [i \in ReqIds |-> Idle]
  /\ calc = NoCalc
  /\ priceInForce = [i \in SubIds |->
                       IF subs[i].exists THEN Catalog[subs[i].plan_id].price ELSE 0]

\* History: for every subscription, the price its plan had when the
\* subscription took that plan (at its creation or its last plan change).
\* The store keeps no such column; the value is recorded here so that later
\* charges can be compared with it.
PriceTaken(db) ==
  [i \in SubIds |->
     IF db.subs[i].exists
        /\ (~subs[i].exists \/ db.subs[i].plan_id # subs[i].plan_id)
     THEN plans[db.subs[i].plan_id].price
     ELSE priceInForce[i]]

\* ------------------------------------------------ requests run in sequence
\* One request is in flight at a time: it runs from its first store call to
\* its answer, which stays in last until the response has gone out.
Answer(o) ==
  /\ subs' = o.db.subs
  /\ logs' = o.db.logs
  /\ bills' = o.db.bills
  /\ last' = o.r
  /\ priceInForce' = PriceTaken(o.db)

Do(r) ==
  /\ opCount < MaxOps
  /\ last.op = "none"
  /\ Answer(Run(r, DB))
  /\ opCount' = opCount + 1
  /\ now' = now + 1
  /\ UNCHANGED <<plans, reqs, calc>>

\* Each operation with the outcomes lf, bf of its log and billing inserts
CreateWith(lf, bf) ==
  \E c \in UserCallers, p \in PlanIds :
    /\ FreeIds(DB) # {}
    /\ Do(WithFaults(NewReq("Create", 0, p, c, FALSE, FALSE, "row", 0), lf, bf))

Create == CreateWith(FALSE, FALSE)

UpgradeWith(lf, bf) ==
  \E id \in SubIds, p \in PlanIds, c \in Callers :
    Do(WithFaults(NewReq("Upgrade", id, p, c, FALSE, FALSE, "row", 0), lf, bf))

Upgrade == UpgradeWith(FALSE, FALSE)

DowngradeWith(lf) ==
  \E id \in SubIds, p \in PlanIds, c \in Callers, f \in BOOLEAN, im \in BOOLEAN,
     uo \in UsageOutcomes, ua \in UsageAmounts :
    /\ uo # "row" => ua = 0
    /\ Do(WithFaults(NewReq("Downgrade", id, p, c, f, im, uo, ua), lf, FALSE))

Downgrade == DowngradeWith(FALSE)

CancelWith(lf) ==
  \E id \in SubIds, c \in Callers, im \in BOOLEAN :
    Do(WithFaults(NewReq("Cancel", id, 0, c, FALSE, im, "row", 0), lf, FALSE))

Cancel == CancelWith(FALSE)

RenewWith(lf, bf) ==
  \E id \in SubIds :
    Do(WithFaults(NewReq("Renew", id, 0, Admin, FALSE, FALSE, "row", 0), lf, bf))

Renew == RenewWith(FALSE, FALSE)

Pause ==
  \E id \in SubIds, c \in Callers :
    Do(NewReq("Pause", id, 0, c, FALSE, FALSE, "row", 0))

Resume ==
  \E id \in SubIds, c \in Callers :
    Do(NewReq("Resume", id, 0, c, FALSE, FALSE, "row", 0))

Reactivate ==
  \E id \in SubIds, c \in Callers :
    Do(NewReq("Reactivate", id, 0, c, FALSE, FALSE, "row", 0))

\* The route hands the answer to the client.
Respond ==
  /\ last.op # "none"
  /\ last' = Idle
  /\ UNCHANGED <<plans, subs, logs, bills, now, opCount, reqs, calc, priceInForce>>

Next ==
  \/ Create
  \/ Upgrade
  \/ Downgrade
  \/ Cancel
  \/ Renew
  \/ Pause
  \/ Resume
  \/ Reactivate
  \/ Respond

Spec == Init /\ [][Next]_vars

\* ------------------------------------------- requests interleave at awaits
\* A client submits a request on an existing subscription as its owner (or a
\* Create as user u1); the handler has not made its first store call yet.
Submit(i) ==
  /\ reqs[i].op = "none"
  /\ \E op \in {"Create", "Upgrade", "Downgrade", "Cancel", "Renew"},
        id \in SubIds, p \in PlanIds :
       /\ op = "Create" => id = 1 /\ FreeIds(DB) # {}
       /\ op # "Create" => subs[id].exists
       /\ op \in {"Cancel", "Renew"} => p = 1
       /\ LET busy == {j \in ReqIds \ {i} : reqs[j].pc # "done"}
              new == NewReq(op, IF op = "Create" THEN 0 ELSE id,
                            IF op \in {"Cancel", "Renew"} THEN 0 ELSE p,
                            [userId |-> IF op = "Create" THEN "u1"
                                        ELSE subs[id].user_id,
                             role |-> "user"],
                            FALSE, FALSE, "row", 0)
          IN reqs' = [j \in ReqIds |->
                        IF j = i THEN [new EXCEPT !.overlapped = (busy # {})]
                        ELSE IF j \in busy
                             THEN [reqs[j] EXCEPT !.overlapped = TRUE]
                             ELSE reqs[j]]
  /\ now' = now + 1
  /\ UNCHANGED <<plans, subs, logs, bills, last, opCount, calc, priceInForce>>

\* What the store call of request i leaves behind
Stored(i, o) ==
  /\ subs' = o.db.subs
  /\ logs' = o.db.logs
  /\ bills' = o.db.bills
  /\ priceInForce' = PriceTaken(o.db)
  /\ reqs' = [reqs EXCEPT ![i] = o.r]

\* One awaited store call of request i
Advance(i, op) ==
  /\ reqs[i].op = op
  /\ reqs[i].pc # "done"
  /\ Stored(i, Step(reqs[i], DB))
  /\ UNCHANGED <<plans, now, last, opCount, calc>>

CreateAdvance(i) ==
  /\ reqs[i].pc = "model_insert" => FreeIds(DB) # {}
  /\ Advance(i, "Create")

UpgradeAdvance(i) == Advance(i, "Upgrade")

DowngradeAdvance(i) == Advance(i, "Downgrade")

CancelAdvance(i) == Advance(i, "Cancel")

RenewAdvance(i) == Advance(i, "Renew")

NextConc ==
  \E i \in ReqIds :
    \/ Submit(i)
    \/ CreateAdvance(i)
    \/ UpgradeAdvance(i)
    \/ DowngradeAdvance(i)
    \/ CancelAdvance(i)
    \/ RenewAdvance(i)

SpecConc == Init /\ [][NextConc]_vars

\* ------------------------------ requests in sequence, side inserts may fail
\* As Spec, but the insert into subscription_logs or billing_information of
\* a request may answer an error.
CreateFaulty == \E lf \in BOOLEAN, bf \in BOOLEAN : CreateWith(lf, bf)

UpgradeFaulty == \E lf \in BOOLEAN, bf \in BOOLEAN : UpgradeWith(lf, bf)

DowngradeFaulty == \E lf \in BOOLEAN : DowngradeWith(lf)

CancelFaulty == \E lf \in BOOLEAN : CancelWith(lf)

RenewFaulty == \E lf \in BOOLEAN, bf \in BOOLEAN : RenewWith(lf, bf)

NextFaulty ==
  \/ CreateFaulty
  \/ UpgradeFaulty
  \/ DowngradeFaulty
  \/ CancelFaulty
  \/ RenewFaulty
  \/ Respond

SpecFaulty == Init /\ [][NextFaulty]_vars

\* ------------------------------------------------------- date computations
\* The three places that turn a billing cycle into a date, each asked with
\* any day of 2023 or 2024 and any cycle the schema admits.
StartDays == 1..DaysBeforeYear(2025)

InitDates ==
  /\ plans = Catalog
  /\ subs = [i \in SubIds |-> NoRow]
  /\ logs = << >>
  /\ bills = << >>
  /\ last = Idle
  /\ opCount = 0
  /\ reqs = [i \in ReqIds |-> Idle]
  /\ priceInForce = [i \in SubIds |-> 0]
  /\ now \in StartDays
  /\ calc \in {[NoCalc EXCEPT !.start = now, !.cycle = c] : c \in BillingCycles}

StoreUnchanged ==
  UNCHANGED <<plans, subs, logs, bills, now, last, opCount, reqs, priceInForce>>

ServiceNextBillingDate ==
  /\ calc.start # Null /\ calc.service = Null
  /\ calc' = [calc EXCEPT !.service = calculateNextBillingDate(calc.cycle, calc.start)]
  /\ StoreUnchanged

BillingNextBillingDate ==
  /\ calc.start # Null /\ calc.billing = Null
  /\ calc' = [calc EXCEPT !.billing = nextBillingDate(calc.cycle, calc.start)]
  /\ StoreUnchanged

TriggerPeriodEnd ==
  /\ calc.start # Null /\ calc.trigger = Null
  /\ calc' = [calc EXCEPT !.trigger =
                 calculate_subscription_period_end(calc.start, calc.cycle)]
  /\ StoreUnchanged

NextDates ==
  \/ ServiceNextBillingDate
  \/ BillingNextBillingDate
  \/ TriggerPeriodEnd

SpecDates == InitDates /\ [][NextDates]_vars

\* Requests in sequence on a store that holds at most one, active, row
InitActive == Init /\ \A i \in SubIds : subs[i].exists => subs[i].status = "active"

SpecActive == InitActive /\ [][Next]_vars

\* ---------------------------------------------------------- plan operations
\* The answer of one store call of a plan operation: the request and the
\* plans table it leaves
PlanOut(r, pl) == [r |-> r, plans |-> pl]
PlanGoto(r, pl, pc) == PlanOut([r EXCEPT !.pc = pc], pl)
PlanFinish(r, pl, res) == PlanOut([r EXCEPT !.pc = "done", !.result = res], pl)

\* subscriptions.plan_id REFERENCES plans(id): the rows that point at plan p
ReferencingRows(db, p) == {i \in SubIds : db.subs[i].exists /\ db.subs[i].plan_id = p}

\* the constraint left out: a DELETE on plans is never held back
Restricted_Off(db, p) == FALSE

\* ON DELETE RESTRICT: a DELETE of plan p answers an error while a
\* subscription row points at it
Restricted(db, p) == ReferencingRows(db, p) # {}

\* PlanModel.update: getById, then the update by id (.single() answers an
\* error when no row was updated)
UpdatePlanStep(r, db, pl) ==
  CASE r.pc = "start" ->
         IF ~pl[r.target].exists THEN PlanFinish(r, pl, "NotFound")
         ELSE PlanGoto(r, pl, "update")
    [] r.pc = "update" ->
         IF ~pl[r.target].exists THEN PlanFinish(r, pl, "StoreError")
         ELSE PlanFinish(r, [pl EXCEPT ![r.target].price = r.price], "ok")

\* PlanModel.softDelete: refused while an active subscription is on the plan
SoftDeletePlanStep(r, db, pl) ==
  CASE r.pc = "start" ->
         IF \E i \in ReferencingRows(db, r.target) : db.subs[i].status = "active"
         THEN PlanFinish(r, pl, "ConflictError")
         ELSE PlanGoto(r, pl, "update")
    [] r.pc = "update" ->
         IF ~pl[r.target].exists THEN PlanFinish(r, pl, "StoreError")
         ELSE PlanFinish(r, [pl EXCEPT ![r.target].is_active = FALSE], "ok")

\* PlanModel.hardDelete: refused while any subscription is on the plan; the
\* DELETE itself is subject to the foreign key
HardDeletePlanStep(r, db, pl) ==
  CASE r.pc = "start" ->
         IF ReferencingRows(db, r.target) # {}
         THEN PlanFinish(r, pl, "ConflictError")
         ELSE PlanGoto(r, pl, "delete")
    [] r.pc = "delete" ->
         IF Restricted(db, r.target) THEN PlanFinish(r, pl, "StoreError")
         ELSE PlanFinish(r, [pl EXCEPT ![r.target].exists = FALSE], "ok")

PlanOps == {"UpdatePlan", "SoftDeletePlan", "HardDeletePlan"}

PlanStep(r, db, pl) ==
  CASE r.op = "UpdatePlan" -> UpdatePlanStep(r, db, pl)
    [] r.op = "SoftDeletePlan" -> SoftDeletePlanStep(r, db, pl)
    [] r.op = "HardDeletePlan" -> HardDeletePlanStep(r, db, pl)

RECURSIVE RunPlanOn(_, _)
RunPlanOn(o, db) ==
  IF o.r.pc = "done" THEN o ELSE RunPlanOn(PlanStep(o.r, db, o.plans), db)

\* The prices an administrator may set: below and above every catalog price
NewPrices == {0, 4}

PlanReq(op, p, price) ==
  [NewReq(op, 0, p, Admin, FALSE, FALSE, "row", 0) EXCEPT !.price = price]

PlanAnswer(o) ==
  /\ plans' = o.plans
  /\ last' = o.r

\* A plan operation run from its first store call to its answer
DoPlan(r) ==
  /\ opCount < MaxOps
  /\ last.op = "none"
  /\ PlanAnswer(RunPlanOn(PlanOut(r, plans), DB))
  /\ opCount' = opCount + 1
  /\ now' = now + 1
  /\ UNCHANGED <<subs, logs, bills, reqs, calc, priceInForce>>

UpdatePlan == \E p \in PlanIds, pr \in NewPrices : DoPlan(PlanReq("UpdatePlan", p, pr))

SoftDeletePlan == \E p \in PlanIds : DoPlan(PlanReq("SoftDeletePlan", p, 0))

HardDeletePlan == \E p \in PlanIds : DoPlan(PlanReq("HardDeletePlan", p, 0))

\* Administrators change the catalog between the requests of the users
NextPlans ==
  \/ UpdatePlan
  \/ SoftDeletePlan
  \/ HardDeletePlan
  \/ Create
  \/ Upgrade
  \/ Renew
  \/ Respond

SpecPlans == Init /\ [][NextPlans]_vars

\* ------------------------------- plan operations interleave with Create
SubmitCreate(i) ==
  /\ reqs[i].op = "none"
  /\ FreeIds(DB) # {}
  /\ \E c \in UserCallers, p \in PlanIds :
       reqs' = [reqs EXCEPT ![i] = NewReq("Create", 0, p, c, FALSE, FALSE, "row", 0)]
  /\ now' = now + 1
  /\ UNCHANGED <<plans, subs, logs, bills, last, opCount, calc, priceInForce>>

SubmitPlanOp(i) ==
  /\ reqs[i].op = "none"
  /\ \E op \in PlanOps, p \in PlanIds, pr \in NewPrices :
       /\ op # "UpdatePlan" => pr = 0
       /\ reqs' = [reqs EXCEPT ![i] = PlanReq(op, p, pr)]
  /\ now' = now + 1
  /\ UNCHANGED <<plans, subs, logs, bills, last, opCount, calc, priceInForce>>

PlanStored(i, o) ==
  /\ plans' = o.plans
  /\ reqs' = [reqs EXCEPT ![i] = o.r]

\* One awaited store call of plan operation i
PlanAdvance(i, op) ==
  /\ reqs[i].op = op
  /\ reqs[i].pc # "done"
  /\ PlanStored(i, PlanStep(reqs[i], DB, plans))
  /\ UNCHANGED <<subs, logs, bills, now, last, opCount, calc, priceInForce>>

UpdatePlanAdvance(i) == PlanAdvance(i, "UpdatePlan")

SoftDeletePlanAdvance(i) == PlanAdvance(i, "SoftDeletePlan")

HardDeletePlanAdvance(i) == PlanAdvance(i, "HardDeletePlan")

NextPlansConc ==
  \E i \in ReqIds :
    \/ SubmitCreate(i)
    \/ SubmitPlanOp(i)
    \/ CreateAdvance(i)
    \/ UpdatePlanAdvance(i)
    \/ SoftDeletePlanAdvance(i)
    \/ HardDeletePlanAdvance(i)

SpecPlansConc == Init /\ [][NextPlansConc]_vars

\* ------------------------------------- requests in sequence, reads included
\* getSubscriptionById asked for itself, by any caller
Read ==
  \E id \in SubIds, c \in Callers :
    Do(NewReq("Read", id, 0, c, FALSE, FALSE, "row", 0))

NextAccess ==
  \/ Read
  \/ Create
  \/ Upgrade
  \/ Downgrade
  \/ Cancel
  \/ Respond

SpecAccess == Init /\ [][NextAccess]_vars

\* --------------------------------------------- requests through the routes
\* The users that authenticateToken lets through to the user router
RouteUsers == {c.userId : c \in UserCallers}

\* What the service finds in its userContext parameter when the route has
\* put something else there (the id string of the user, or the request
\* body): neither a userId nor a role
NoContext == [userId |-> Undefined, role |-> Undefined]

RouteReq(op, id, plan, user) ==
  [NewReq(op, id, plan, NoContext, FALSE, FALSE, "row", 0) EXCEPT !.user = user]

\* GET /subscriptions/:id: getSubscriptionById(req.params.id, req.user.id)
GetRoute ==
  \E id \in SubIds, u \in RouteUsers : Do(RouteReq("Read", id, 0, u))

\* POST /subscriptions: createSubscription(subscriptionData), no second
\* argument
CreateRoute ==
  \E p \in PlanIds, u \in RouteUsers : Do(RouteReq("Create", 0, p, u))

\* POST /subscriptions/:id/cancel:
\* cancelSubscription(req.params.id, req.user.id, {immediate, reason}); the
\* service takes its second argument as cancellationData and its third as
\* userContext, so the options of the body never reach cancellationData
CancelRoute ==
  \E id \in SubIds, u \in RouteUsers : Do(RouteReq("Cancel", id, 0, u))

NextRoutes ==
  \/ GetRoute
  \/ CreateRoute
  \/ CancelRoute
  \/ Respond

SpecRoutes == Init /\ [][NextRoutes]_vars

\* ================================================================= claims
\* The request that has just run to its answer in this step
Ran(op) == last.op = "none" /\ last'.op = op

\* The caller may touch the row (owner or admin) and the row is there
Authorised(c, row) == row.exists /\ (c.role = "admin" \/ c.userId = row.user_id)

Succeeded(i) == reqs[i].pc = "done" /\ reqs[i].result = "ok"

\* C1: a Cancel and an Upgrade that were in flight together on the same
\* subscription never both succeed.
C1_NeverBothSucceed ==
  \A i \in ReqIds, j \in ReqIds :
    (/\ reqs[i].op = "Cancel" /\ reqs[j].op = "Upgrade"
     /\ reqs[i].sub = reqs[j].sub
     /\ reqs[i].overlapped /\ reqs[j].overlapped)
    => ~(Succeeded(i) /\ Succeeded(j))

\* The valid downgrade whose usage answer is above the target quota
OverQuotaDowngrade ==
  /\ Ran("Downgrade")
  /\ Authorised(last'.caller, subs[last'.sub])
  /\ subs[last'.sub].status = "active"
  /\ plans[last'.target].is_active
  /\ plans[last'.target].price < plans[subs[last'.sub].plan_id].price
  /\ plans[last'.target].quota < plans[subs[last'.sub].plan_id].quota
  /\ last'.usageOutcome = "row"
  /\ last'.usageAmount > plans[last'.target].quota

\* C2: a downgrade whose usage exceeds the target quota is rejected with
\* UsageExceedsTarget and leaves the plan reference alone unless force is
\* given, in which case it succeeds.
C2_UsageGuard ==
  [][OverQuotaDowngrade =>
       IF last'.force
       THEN last'.result = "ok" /\ subs'[last'.sub].plan_id = last'.target
       ELSE /\ last'.result = "UsageExceedsTarget"
            /\ subs'[last'.sub].plan_id = subs[last'.sub].plan_id]_vars

\* C3: when the usage query fails the downgrade is rejected and the plan
\* reference is unchanged.
C3_FailClosed ==
  [][(/\ Ran("Downgrade")
      /\ Authorised(last'.caller, subs[last'.sub])
      /\ subs[last'.sub].status = "active"
      /\ plans[last'.target].is_active
      /\ ~NotADowngrade(plans[subs[last'.sub].plan_id], plans[last'.target])
      /\ last'.usageOutcome # "row")
     => /\ last'.result # "ok"
        /\ subs'[last'.sub].plan_id = subs[last'.sub].plan_id]_vars

\* C4: Cancel of a subscription that is not cancelled succeeds and cancels
\* it; Cancel of a cancelled subscription answers AlreadyCancelled and
\* changes neither the subscriptions, the log nor the billing records.
C4_CancelTwice ==
  [][(Ran("Cancel") /\ Authorised(last'.caller, subs[last'.sub]))
     => IF subs[last'.sub].status = "cancelled"
        THEN /\ last'.result = "AlreadyCancelled"
             /\ subs' = subs /\ logs' = logs /\ bills' = bills
        ELSE /\ last'.result = "ok"
             /\ subs'[last'.sub].status = "cancelled"]_vars

\* A second Cancel has been answered after a first one was logged
C4_Witness ==
  /\ last.op = "Cancel" /\ last.result = "AlreadyCancelled"
  /\ \E k \in 1..Len(logs) : logs[k].action = "cancel" /\ logs[k].sub = last.sub

\* C5: a row is cancelled exactly when cancelled_at is set and paused exactly
\* when paused_at is set.
C5_TimestampsMatchStatus ==
  \A i \in SubIds :
    subs[i].exists =>
      /\ (subs[i].status = "cancelled") <=> (subs[i].cancelled_at # Null)
      /\ (subs[i].status = "paused") <=> (subs[i].paused_at # Null)

\* C6: no user holds two subscriptions that are not cancelled on one plan.
C6_OnePerUserAndPlan ==
  \A i \in SubIds, j \in SubIds :
    (/\ i # j /\ subs[i].exists /\ subs[j].exists
     /\ subs[i].user_id = subs[j].user_id
     /\ subs[i].plan_id = subs[j].plan_id)
    => (subs[i].status = "cancelled" \/ subs[j].status = "cancelled")

UpgradeBetween(a, b) ==
  /\ Ran("Upgrade")
  /\ Authorised(last'.caller, subs[last'.sub])
  /\ subs[last'.sub].status = "active"
  /\ subs[last'.sub].plan_id = a /\ last'.target = b
  /\ plans[a].is_active /\ plans[b].is_active

\* C8: between active plans A and B with A.price < B.price and
\* A.quota <= B.quota, Upgrade from A to B succeeds and Upgrade from B to A
\* answers NotAnUpgrade.
C8_UpgradeOrdering ==
  [][\A a \in PlanIds, b \in PlanIds :
       (plans[a].price < plans[b].price /\ plans[a].quota <= plans[b].quota)
       => /\ UpgradeBetween(a, b)
               => last'.result = "ok" /\ subs'[last'.sub].plan_id = b
          /\ UpgradeBetween(b, a)
               => last'.result = "NotAnUpgrade"
                  /\ subs'[last'.sub].plan_id = b]_vars

\* A row was upgraded from A to B and the upgrade back to A was refused
C8_Witness ==
  /\ last.op = "Upgrade" /\ last.result = "NotAnUpgrade"
  /\ \E k \in 1..Len(logs) :
       /\ logs[k].action = "upgrade" /\ logs[k].sub = last.sub
       /\ logs[k].from = last.target /\ logs[k].to = subs[last.sub].plan_id
       /\ plans[logs[k].from].price < plans[logs[k].to].price
       /\ plans[logs[k].from].quota <= plans[logs[k].to].quota

\* price first, quota only between equal prices
LexLess(a, b) == a.price < b.price \/ (a.price = b.price /\ a.quota < b.quota)

\* The plan change that has just been accepted on an active row
Accepted(op) ==
  /\ Ran(op) /\ last'.result = "ok"
  /\ Authorised(last'.caller, subs[last'.sub])

\* C9 as claimed: an accepted Upgrade target is above the current plan and
\* an accepted Downgrade target below it, price compared first and quota only
\* between equal prices.
C9_PriceThenQuota ==
  [][/\ Accepted("Upgrade")
          => LexLess(plans[subs[last'.sub].plan_id], plans[last'.target])
     /\ Accepted("Downgrade")
          => LexLess(plans[last'.target], plans[subs[last'.sub].plan_id])]_vars

\* C9 as amended: an accepted Upgrade target is dearer or larger than the
\* current plan, an accepted Downgrade target cheaper or smaller, so a target
\* equal in price and quota is accepted by neither.
C9_PriceOrQuota ==
  [][LET cur == plans[subs[last'.sub].plan_id]
         tgt == plans[last'.target]
     IN /\ Accepted("Upgrade")
             => (tgt.price > cur.price \/ tgt.quota > cur.quota)
        /\ Accepted("Downgrade")
             => (tgt.price < cur.price \/ tgt.quota < cur.quota)
        /\ (Accepted("Upgrade") \/ Accepted("Downgrade"))
             => ~(tgt.price = cur.price /\ tgt.quota = cur.quota)]_vars

\* An Upgrade to a cheaper plan with a larger quota has been accepted
C9_Witness ==
  /\ last.op = "Upgrade" /\ last.result = "ok"
  /\ subs[last.sub].plan_id = last.target
  /\ plans[last.target].price < plans[last.seenPlan].price
  /\ plans[last.target].quota > plans[last.seenPlan].quota

\* C10: Create on an active plan by a user without an active or trial
\* subscription on it stores a row in status trial when the plan has trial
\* days and active otherwise, with the plan's quota as snapshot.
C10_CreateStatus ==
  [][(/\ Ran("Create")
      /\ plans[last'.target].is_active
      /\ ~\E i \in SubIds :
            /\ subs[i].exists /\ subs[i].user_id = last'.caller.userId
            /\ subs[i].plan_id = last'.target
            /\ subs[i].status \in {"active", "trial"})
     => /\ last'.result = "ok"
        /\ subs'[last'.newId].status =
             (IF plans[last'.target].trial_days > 0 THEN "trial" ELSE "active")
        /\ subs'[last'.newId].quota_snapshot = plans[last'.target].quota]_vars

\* C11: after a successful Upgrade to plan T the row's plan reference is T
\* and its quota snapshot is T's quota.
C11_UpgradeSnapshot ==
  [][(Ran("Upgrade") /\ last'.result = "ok")
     => /\ subs'[last'.sub].plan_id = last'.target
        /\ subs'[last'.sub].quota_snapshot = plans[last'.target].quota]_vars

\* The five operations that write to the log or ask for a billing record
LoggedOps == {"Create", "Upgrade", "Downgrade", "Cancel", "Renew"}

\* C12: an operation that would succeed with both sinks working still
\* succeeds, with the same subscription rows stored, when the log insert or
\* the billing insert fails.
C12_SinkFailuresSwallowed ==
  [][(/\ last.op = "none" /\ last'.op \in LoggedOps
      /\ (last'.logFails \/ last'.billFails))
     => LET clean == Run(WithFaults([last' EXCEPT !.pc = "start",
                                                  !.result = "pending",
                                                  !.seenPlan = 0,
                                                  !.existingPlan = 0,
                                                  !.newId = 0],
                                    FALSE, FALSE), DB)
        IN clean.r.result = "ok"
             => last'.result = "ok" /\ subs' = clean.db.subs]_vars

\* SUBSCRIPTION_ACTIONS: the tag each operation logs under
ActionName(op) ==
  CASE op = "Create" -> "subscribe"
    [] op = "Upgrade" -> "upgrade"
    [] op = "Downgrade" -> "downgrade"
    [] op = "Cancel" -> "cancel"
    [] op = "Renew" -> "renew"

\* C13: a successful Create, Upgrade, Downgrade, Cancel or Renew whose log
\* insert is accepted appends exactly one log entry, for its subscription
\* and under its action name; no step modifies or removes an entry.
C13_OneLogEntry ==
  [][/\ Len(logs') >= Len(logs)
     /\ SubSeq(logs', 1, Len(logs)) = logs
     /\ (/\ last.op = "none" /\ last'.op \in LoggedOps
         /\ last'.result = "ok" /\ ~last'.logFails)
        => /\ Len(logs') = Len(logs) + 1
           /\ logs'[Len(logs')].action = ActionName(last'.op)
           /\ logs'[Len(logs')].sub =
                (IF last'.op = "Create" THEN last'.newId ELSE last'.sub)]_vars

\* A second operation has been logged after a first one, under another name
C13_Witness ==
  /\ last.op \in LoggedOps /\ last.result = "ok" /\ ~last.logFails
  /\ Len(logs) = 2
  /\ logs[2].action = ActionName(last.op)
  /\ logs[1].action # logs[2].action

\* C14: a successful Create, Upgrade, immediate Downgrade or Renew adds one
\* billing record for its subscription; a successful Cancel without
\* immediate, Pause, Resume or deferred Downgrade adds none.
C14_BillingEmitted ==
  [][(last.op = "none" /\ last'.op # "none" /\ last'.result = "ok")
     => IF \/ last'.op \in {"Create", "Upgrade", "Renew"}
           \/ (last'.op = "Downgrade" /\ last'.immediate)
        THEN /\ Len(bills') = Len(bills) + 1
             /\ bills'[Len(bills')].sub =
                  (IF last'.op = "Create" THEN last'.newId ELSE last'.sub)
        ELSE (\/ last'.op \in {"Pause", "Resume"}
              \/ (last'.op \in {"Cancel", "Downgrade"} /\ ~last'.immediate))
             => bills' = bills]_vars

\* Calendar addition with the day clamped to the last day of the target month
ClampedAdd(day, months) ==
  LET dt == FromDays(day)
      t == MonthAfter(dt, months)
      last_day == DaysInMonth(t.y, t.m)
  IN ToDays([y |-> t.y, m |-> t.m, d |-> IF dt.d > last_day THEN last_day ELSE dt.d])

\* The end of the period that starts on day under the cycle
ExpectedEnd(day, cycle) ==
  CASE cycle = "weekly" -> day + 7
    [] cycle = "monthly" -> ClampedAdd(day, 1)
    [] cycle = "quarterly" -> ClampedAdd(day, 3)
    [] cycle = "yearly" -> ClampedAdd(day, 12)

\* C18: the service's next period end for a monthly or yearly cycle is the
\* start date one month or one year on, clamped to the last day of the target
\* month: 2024-01-31 gives 2024-02-29, 2023-01-31 gives 2023-02-28, and no
\* start date gives a date in the month after the target month.
C18_EndOfMonthClamped ==
  (calc.service # Null /\ calc.cycle \in {"monthly", "yearly"})
  => LET months == IF calc.cycle = "monthly" THEN 1 ELSE 12
         target == MonthAfter(FromDays(calc.start), months)
         got == FromDays(calc.service)
     IN /\ got.y = target.y /\ got.m = target.m
        /\ calc.service = ClampedAdd(calc.start, months)
        /\ (calc.cycle = "monthly" /\ calc.start = ToDays([y |-> 2024, m |-> 1, d |-> 31]))
             => calc.service = ToDays([y |-> 2024, m |-> 2, d |-> 29])
        /\ (calc.cycle = "monthly" /\ calc.start = ToDays([y |-> 2023, m |-> 1, d |-> 31]))
             => calc.service = ToDays([y |-> 2023, m |-> 2, d |-> 28])

\* C19: each place that computes a date from a cycle answers start + 7 days
\* for weekly, + 1 month for monthly, + 3 months for quarterly and + 1 year
\* for yearly.
C19_CycleIncrements ==
  /\ calc.service # Null => calc.service = ExpectedEnd(calc.start, calc.cycle)
  /\ calc.billing # Null => calc.billing = ExpectedEnd(calc.start, calc.cycle)
  /\ calc.trigger # Null => calc.trigger = ExpectedEnd(calc.start, calc.cycle)

\* The billing records a Renew of subscription i has added with a billing
\* date inside the row's current period
RenewalsInPeriod(i) ==
  {k \in 1..Len(bills) :
     /\ bills[k].sub = i /\ bills[k].notes = "renewal"
     /\ subs[i].current_period_start <= bills[k].billing_date
     /\ bills[k].billing_date < subs[i].current_period_end}

\* C15: however often Renew is retried on a subscription within one billing
\* period, it adds at most one billing record for that period.
C15_OneRenewalPerPeriod ==
  \A i \in SubIds : subs[i].exists => Cardinality(RenewalsInPeriod(i)) <= 1

\* C16: Pause of an active subscription succeeds and leaves it paused;
\* Resume of a paused subscription succeeds and leaves it active, with
\* paused_at and the pause duration cleared and the next billing date one
\* billing cycle after the day of the resume.
C16_PauseResume ==
  [][/\ (/\ Ran("Pause") /\ Authorised(last'.caller, subs[last'.sub])
         /\ subs[last'.sub].status = "active")
        => /\ last'.result = "ok"
           /\ subs'[last'.sub].status = "paused"
           /\ subs'[last'.sub].paused_at = now
     /\ (/\ Ran("Resume") /\ Authorised(last'.caller, subs[last'.sub])
         /\ subs[last'.sub].status = "paused")
        => /\ last'.result = "ok"
           /\ subs'[last'.sub].status = "active"
           /\ subs'[last'.sub].paused_at = Null
           /\ subs'[last'.sub].pause_duration_days = Null
           /\ subs'[last'.sub].next_billing_date =
                ExpectedEnd(now, subs[last'.sub].billing_cycle)]_vars

\* C17: the refund a successful Cancel reports is, with immediate, the plan
\* price times the share of the row's current period that is still to run
\* (so between 0 and the price), and 0 without immediate.
C17_ProratedRefund ==
  [][(Ran("Cancel") /\ last'.result = "ok")
     => LET row == subs[last'.sub]
            price == plans[row.plan_id].price
            period == row.current_period_end - row.current_period_start
            left == IF row.current_period_end > now
                    THEN row.current_period_end - now ELSE 0
            refund == last'.refund
        IN IF last'.immediate
           THEN /\ refund.num >= 0
                /\ refund.num <= price * refund.den
                /\ refund.num * period = price * left * refund.den
           ELSE refund.num = 0]_vars

\* C20: no stored subscription has its period end before its period start.
C20_PeriodOrdered ==
  \A i \in SubIds :
    subs[i].exists => subs[i].current_period_end >= subs[i].current_period_start

\* Create has stored a row whose period the insert trigger computed, and a
\* later operation has changed that row
C20_Witness ==
  /\ last.op \in {"Upgrade", "Downgrade", "Cancel"} /\ last.result = "ok"
  /\ \E k \in 1..Len(logs) : logs[k].action = "subscribe" /\ logs[k].sub = last.sub
  /\ subs[last.sub].current_period_start >= Today
  /\ subs[last.sub].current_period_end > subs[last.sub].current_period_start

\* C21: a billing record generated by Renew or by the billing of an Upgrade
\* charges the price the plan had when the subscription took it, whatever
\* the plan's price has been changed to since.
C21_ChargedAsSubscribed ==
  [][(Ran("Renew") \/ Ran("Upgrade")) /\ last'.result = "ok"
       => /\ Len(bills') = Len(bills) + 1
          /\ bills'[Len(bills')].amount = priceInForce'[last'.sub]]_vars

\* The plans a subscription is on or was put on by a logged Create
EverSubscribed ==
  {subs[i].plan_id : i \in {j \in SubIds : subs[j].exists}}
  \cup {logs[k].to : k \in {n \in 1..Len(logs) : logs[n].action = "subscribe"}}

C23_OwnerCancelsThroughRoute ==
  [][\A id \in SubIds :
       (/\ Ran("Cancel") /\ last'.sub = id
        /\ subs[id].exists /\ subs[id].status # "cancelled"
        /\ last'.user = subs[id].user_id)
       => (last'.result = "ok" /\ subs'[id].status = "cancelled")]_vars

\* Two Create requests of one user for one plan that were in flight together
ConcurrentCreates(i, j) ==
  /\ i # j
  /\ reqs[i].op = "Create" /\ reqs[j].op = "Create"
  /\ reqs[i].caller.userId = reqs[j].caller.userId
  /\ reqs[i].target = reqs[j].target
  /\ reqs[i].overlapped /\ reqs[j].overlapped

\* C24: of two concurrent Creates of the same user for the same plan at most
\* one succeeds, and they never leave two active subscriptions of that user
\* on that plan.
C24_OneCreateWins ==
  \A i \in ReqIds, j \in ReqIds :
    ConcurrentCreates(i, j)
    => /\ ~(Succeeded(i) /\ Succeeded(j))
       /\ ~(/\ reqs[i].newId # 0 /\ reqs[j].newId # 0
            /\ subs[reqs[i].newId].status = "active"
            /\ subs[reqs[j].newId].status = "active"
            /\ subs[reqs[i].newId].plan_id = subs[reqs[j].newId].plan_id)

\* C25: after a successful Downgrade the effective date recorded on the
\* subscription is the next billing date the subscription had stored when
\* the request is deferred, and the time of the request when it is immediate.
C25_EffectiveDate ==
  [][\A id \in SubIds :
       (Ran("Downgrade") /\ last'.result = "ok" /\ last'.sub = id)
       => subs'[id].effective_date =
            IF last'.immediate THEN now ELSE subs[id].next_billing_date]_vars

\* The Upgrade or Downgrade that has just been answered, asked by the owner
\* or an admin on row id
PlanChangeAsked(op, id) ==
  /\ Ran(op) /\ last'.sub = id
  /\ Authorised(last'.caller, subs[id])

\* C26: an Upgrade or Downgrade of a subscription that is not active answers
\* InvalidTransition, an Upgrade of an active subscription to an available
\* plan that is neither dearer nor larger answers NotAnUpgrade, and in both
\* cases subscriptions, log and billing records stay as they were.
C26_RefusedWithoutEffect ==
  [][\A id \in SubIds :
       /\ ((PlanChangeAsked("Upgrade", id) \/ PlanChangeAsked("Downgrade", id))
           /\ subs[id].status # "active")
          => (last'.result = "InvalidTransition" /\ UNCHANGED <<subs, logs, bills>>)
       /\ (/\ PlanChangeAsked("Upgrade", id)
           /\ subs[id].status = "active"
           /\ plans[last'.target].exists /\ plans[last'.target].is_active
           /\ plans[last'.target].price <= plans[subs[id].plan_id].price
           /\ plans[last'.target].quota <= plans[subs[id].plan_id].quota)
          => (last'.result = "NotAnUpgrade" /\ UNCHANGED <<subs, logs, bills>>)]_vars

\* The owner's Downgrade of a paused subscription has been refused after an
\* earlier request had gone through
C26_Witness ==
  /\ last.op = "Downgrade" /\ last.result = "InvalidTransition"
  /\ subs[last.sub].exists /\ subs[last.sub].status = "paused"
  /\ last.caller.userId = subs[last.sub].user_id
  /\ opCount = MaxOps

\* C27: a Renew that succeeds leaves every subscription row as it was
\* (status, plan reference, period start and end, next billing date) and adds
\* exactly one billing record and one log entry tagged renew, both for the
\* renewed subscription; a Renew of a subscription that is not active answers
\* InvalidTransition and adds neither.
C27_RenewFrame ==
  [][\A id \in SubIds :
       (Ran("Renew") /\ last'.sub = id /\ subs[id].exists)
       => IF subs[id].status = "active"
          THEN /\ last'.result = "ok"
               /\ subs' = subs
               /\ bills' = Append(bills, bills'[Len(bills')])
               /\ bills'[Len(bills')].sub = id
               /\ bills'[Len(bills')].notes = "renewal"
               /\ logs' = Append(logs, [sub |-> id, action |-> "renew",
                                        from |-> 0, to |-> 0])
          ELSE /\ last'.result = "InvalidTransition"
               /\ UNCHANGED <<subs, logs, bills>>]_vars

\* A subscription created by an earlier request has been renewed: it has its
\* initial and its renewal billing record and its row is as Create left it
C27_Witness ==
  /\ last.op = "Renew" /\ last.result = "ok"
  /\ \E k \in 1..Len(logs) : logs[k].action = "subscribe" /\ logs[k].sub = last.sub
  /\ logs[Len(logs)] = [sub |-> last.sub, action |-> "renew", from |-> 0, to |-> 0]
  /\ bills[Len(bills)].notes = "renewal"
  /\ subs[last.sub].status = "active"

\* C28: whenever a store call of a Create, Upgrade or Renew writes a billing
\* record, the subscription it is written for is active at that moment, also
\* when a Cancel of that subscription is in flight with the request.
C28_BilledWhileActive ==
  [][Len(bills') > Len(bills)
       => subs[bills'[Len(bills')].sub].status = "active"]_vars

AccessOps == {"Read", "Upgrade", "Downgrade", "Cancel"}

\* The request that has just been answered was made by a user who is not an
\* admin on the stored subscription id of another user
ForeignRequest(id) ==
  /\ last.op = "none" /\ last'.op \in AccessOps /\ last'.sub = id
  /\ subs[id].exists
  /\ last'.caller.role # "admin" /\ last'.caller.userId # subs[id].user_id

\* What the same request answers when sent for the id m
AnswerFor(r, m) ==
  Run([r EXCEPT !.sub = m, !.pc = "start", !.result = "pending"], DB).r.result

\* C29: a read, Upgrade, Downgrade or Cancel by a non-admin caller on another
\* user's subscription answers NotFound, leaves subscriptions, log and
\* billing records as they were, and answers what the same request answers
\* for an id under which no subscription is stored.
C29_ForeignLooksMissing ==
  [][\A id \in SubIds :
       ForeignRequest(id)
       => /\ last'.result = "NotFound"
          /\ UNCHANGED <<subs, logs, bills>>
          /\ \A m \in FreeIds(DB) : AnswerFor(last', m) = last'.result]_vars

\* User u2 asked to cancel the subscription of u1 while another id was free,
\* and was told NotFound
C29_Witness ==
  /\ last.op = "Cancel" /\ last.result = "NotFound"
  /\ last.caller = [userId |-> "u2", role |-> "user"]
  /\ subs[last.sub].exists /\ subs[last.sub].user_id = "u1"
  /\ subs[last.sub].status = "active"
  /\ FreeIds(DB) # {}

\* The plan-change entries of subscription id, in the order they were logged
RECURSIVE PlanChanges(_, _)
PlanChanges(l, id) ==
  IF l = << >> THEN << >>
  ELSE IF l[1].sub = id /\ l[1].action \in {"upgrade", "downgrade"}
       THEN <<l[1]>> \o PlanChanges(Tail(l), id)
       ELSE PlanChanges(Tail(l), id)

\* each entry starts from the plan the entry before it went to
Chained(c) == \A k \in 1..(Len(c) - 1) : c[k + 1].from = c[k].to

\* C30: once no Upgrade or Downgrade is in flight, the plan-change entries
\* of every subscription form a chain and the last of them goes to the plan
\* the subscription is on.
C30_LogChain ==
  (\A i \in ReqIds : reqs[i].pc = "done")
  => \A id \in SubIds :
       /\ Chained(PlanChanges(logs, id))
       /\ PlanChanges(logs, id) # << >>
          => PlanChanges(logs, id)[Len(PlanChanges(logs, id))].to = subs[id].plan_id

====
